---- MODULE Spec2Model ----
(***************************************************************************)
(* Model of contracts/access-control/src/lib.rs (AccessControlContract).   *)
(*                                                                         *)
(* The contract's instance storage holds three kinds of entries            *)
(* (enum DataKey): Admin, UserRoles(Address) and TotalRoleAssignments.     *)
(* Every entry may be absent; an Option is modelled as a sequence of       *)
(* length 0 (None) or 1 (Some), a Map<Role, bool> as a function whose      *)
(* domain is the set of roles that have an entry.                          *)
(*                                                                         *)
(* Each public function is one action.  A function body is an operator     *)
(* from the storage it reads to its outcome and the storage it writes; a   *)
(* panic makes the host discard every write and event of the invocation.   *)
(***************************************************************************)
EXTENDS Integers, Sequences, FiniteSets, TLC

\* Principals that may call the contract or be named as targets.
\* Two of them give every case of the properties: an admin, and another address
\* that may hold roles, be granted Admin, or become (and stop being) the admin.
Address == {"a1", "a2"}

\* enum Role
Role == {"Admin", "User", "Operator", "Auditor"}

\* The event log holds at most MaxEvents entries: a call that would publish
\* one more is not taken.  This also bounds the counter by MaxEvents.
MaxEvents == 3

VARIABLES
    admin,                  \* DataKey::Admin                : Option<Address>
    userRoles,              \* DataKey::UserRoles(a)         : Address -|-> Map<Role,bool>
    totalRoleAssignments,   \* DataKey::TotalRoleAssignments : Option<u64>
    events,                 \* env.events(), in publication order
    last                    \* the most recent invocation and its outcome

vars == <<admin, userRoles, totalRoleAssignments, events, last>>

----------------------------------------------------------------------------
\* Option and Map helpers

None == <<>>
Some(x) == <<x>>

\* Option::unwrap_or
unwrap_or(opt, default) == IF Len(opt) = 0 THEN default ELSE opt[1]

\* Map::new(&env)
MapNew == [r \in {} |-> FALSE]

\* Map::get(key) : Option<bool>
MapGet(m, key) == IF key \in DOMAIN m THEN Some(m[key]) ELSE None

\* Map::set(key, val)
MapSet(m, key, val) == [k \in (DOMAIN m) \cup {key} |-> IF k = key THEN val ELSE m[k]]

\* The storage as one value, threaded through a function body.
Storage == [admin |-> admin, userRoles |-> userRoles,
            total |-> totalRoleAssignments, events |-> events]

\* env.storage().instance().get(&DataKey::UserRoles(user)) : Option<Map>
GetUserRolesEntry(s, user) ==
    IF user \in DOMAIN s.userRoles THEN Some(s.userRoles[user]) ELSE None

\* env.storage().instance().set(&DataKey::UserRoles(user), &roles)
SetUserRolesEntry(s, user, roles) ==
    [s EXCEPT !.userRoles =
        [a \in (DOMAIN s.userRoles) \cup {user} |->
            IF a = user THEN roles ELSE s.userRoles[a]]]

\* env.events().publish(topics, data)
Publish(s, ev) == [s EXCEPT !.events = Append(s.events, ev)]

\* A panic: the invocation fails and none of its writes or events persist.
Panic(s, err) == [result |-> err, s |-> s]
Return(s) == [result |-> "Ok", s |-> s]
\* A normal return of a function that yields a value and writes nothing.
ReturnValue(s, v) == [result |-> "Ok", s |-> s, value |-> v]

----------------------------------------------------------------------------
\* Function bodies.  `auth` says whether the invocation carries the
\* authorization of the address the body passes to require_auth().

\* Variant of require_admin: tests the caller's Admin flag instead of
\* comparing the caller with the stored admin.
require_admin_by_flag(s, caller) ==
    IF Len(s.admin) = 0 THEN "NotInitialized"
    ELSE IF ~unwrap_or(MapGet(unwrap_or(GetUserRolesEntry(s, caller), MapNew), "Admin"), FALSE)
    THEN "Unauthorized"
    ELSE "Ok"

\* Variant of require_admin: a missing admin entry counts as a foreign caller.
require_admin_missing_unauthorized(s, caller) ==
    IF Len(s.admin) = 0 THEN "Unauthorized"
    ELSE IF caller # s.admin[1] THEN "Unauthorized"
    ELSE "Ok"

\* fn require_admin(env, caller)
require_admin(s, caller) ==
    IF Len(s.admin) = 0 THEN "NotInitialized"
    ELSE IF caller # s.admin[1] THEN "Unauthorized"
    ELSE "Ok"

\* Variant of initialize: the counter starts at 0.
initialize_zero_counter(s, adm, auth) ==
    IF Len(s.admin) # 0 THEN Panic(s, "AlreadyInitialized")
    ELSE IF ~auth THEN Panic(s, "AuthError")
    ELSE
        LET s1 == [s EXCEPT !.admin = Some(adm)]
            roles == MapSet(MapNew, "Admin", TRUE)
            s2 == SetUserRolesEntry(s1, adm, roles)
            s3 == [s2 EXCEPT !.total = Some(0)]
        IN  Return(Publish(s3, <<"initialized", adm>>))

\* Variant of initialize: no already-initialized guard.
initialize_overwrite(s, adm, auth) ==
    IF ~auth THEN Panic(s, "AuthError")
    ELSE
        LET s1 == [s EXCEPT !.admin = Some(adm)]
            roles == MapSet(MapNew, "Admin", TRUE)
            s2 == SetUserRolesEntry(s1, adm, roles)
            s3 == [s2 EXCEPT !.total = Some(1)]
        IN  Return(Publish(s3, <<"initialized", adm>>))

\* fn initialize(env, admin)
initialize(s, adm, auth) ==
    IF Len(s.admin) # 0 THEN Panic(s, "AlreadyInitialized")
    ELSE IF ~auth THEN Panic(s, "AuthError")
    ELSE
        LET s1 == [s EXCEPT !.admin = Some(adm)]
            roles == MapSet(MapNew, "Admin", TRUE)
            s2 == SetUserRolesEntry(s1, adm, roles)
            s3 == [s2 EXCEPT !.total = Some(1)]
        IN  Return(Publish(s3, <<"initialized", adm>>))

\* Variant of grant_role: no already-assigned check.
grant_role_no_check(s, caller, user, role, auth) ==
    IF ~auth THEN Panic(s, "AuthError")
    ELSE IF require_admin(s, caller) # "Ok" THEN Panic(s, require_admin(s, caller))
    ELSE
        LET roles == unwrap_or(GetUserRolesEntry(s, user), MapNew)
            s1 == SetUserRolesEntry(s, user, MapSet(roles, role, TRUE))
            count == unwrap_or(s1.total, 0)
            s2 == [s1 EXCEPT !.total = Some(count + 1)]
        IN  Return(Publish(s2, <<"role_granted", user, role>>))

\* Variant of grant_role: the counter is not updated.
grant_role_no_count(s, caller, user, role, auth) ==
    IF ~auth THEN Panic(s, "AuthError")
    ELSE IF require_admin(s, caller) # "Ok" THEN Panic(s, require_admin(s, caller))
    ELSE
        LET roles == unwrap_or(GetUserRolesEntry(s, user), MapNew) IN
        IF unwrap_or(MapGet(roles, role), FALSE) THEN Panic(s, "RoleAlreadyAssigned")
        ELSE
            LET s1 == SetUserRolesEntry(s, user, MapSet(roles, role, TRUE))
            IN  Return(Publish(s1, <<"role_granted", user, role>>))

\* Variant of grant_role: the event names the caller instead of the user.
grant_role_event_of_caller(s, caller, user, role, auth) ==
    IF ~auth THEN Panic(s, "AuthError")
    ELSE IF require_admin(s, caller) # "Ok" THEN Panic(s, require_admin(s, caller))
    ELSE
        LET roles == unwrap_or(GetUserRolesEntry(s, user), MapNew) IN
        IF unwrap_or(MapGet(roles, role), FALSE) THEN Panic(s, "RoleAlreadyAssigned")
        ELSE
            LET s1 == SetUserRolesEntry(s, user, MapSet(roles, role, TRUE))
                count == unwrap_or(s1.total, 0)
                s2 == [s1 EXCEPT !.total = Some(count + 1)]
            IN  Return(Publish(s2, <<"role_granted", caller, role>>))

\* fn grant_role(env, caller, user, role)
grant_role(s, caller, user, role, auth) ==
    IF ~auth THEN Panic(s, "AuthError")
    ELSE IF require_admin(s, caller) # "Ok" THEN Panic(s, require_admin(s, caller))
    ELSE
        LET roles == unwrap_or(GetUserRolesEntry(s, user), MapNew) IN
        IF unwrap_or(MapGet(roles, role), FALSE) THEN Panic(s, "RoleAlreadyAssigned")
        ELSE
            LET s1 == SetUserRolesEntry(s, user, MapSet(roles, role, TRUE))
                count == unwrap_or(s1.total, 0)
                s2 == [s1 EXCEPT !.total = Some(count + 1)]
            IN  Return(Publish(s2, <<"role_granted", user, role>>))

\* Variant of revoke_role: no is-assigned check.
revoke_role_no_check(s, caller, user, role, auth) ==
    IF ~auth THEN Panic(s, "AuthError")
    ELSE IF require_admin(s, caller) # "Ok" THEN Panic(s, require_admin(s, caller))
    ELSE IF caller = user /\ role = "Admin" THEN Panic(s, "CannotRevokeSelfAdmin")
    ELSE
        LET roles == unwrap_or(GetUserRolesEntry(s, user), MapNew)
            s1 == SetUserRolesEntry(s, user, MapSet(roles, role, FALSE))
            count == unwrap_or(s1.total, 0)
            s2 == IF count > 0 THEN [s1 EXCEPT !.total = Some(count - 1)] ELSE s1
        IN  Return(Publish(s2, <<"role_revoked", user, role>>))

\* Variant of revoke_role: no self-admin guard.
revoke_role_no_self_guard(s, caller, user, role, auth) ==
    IF ~auth THEN Panic(s, "AuthError")
    ELSE IF require_admin(s, caller) # "Ok" THEN Panic(s, require_admin(s, caller))
    ELSE
        LET roles == unwrap_or(GetUserRolesEntry(s, user), MapNew) IN
        IF ~unwrap_or(MapGet(roles, role), FALSE) THEN Panic(s, "RoleNotAssigned")
        ELSE
            LET s1 == SetUserRolesEntry(s, user, MapSet(roles, role, FALSE))
                count == unwrap_or(s1.total, 0)
                s2 == IF count > 0 THEN [s1 EXCEPT !.total = Some(count - 1)] ELSE s1
            IN  Return(Publish(s2, <<"role_revoked", user, role>>))

\* Variant of revoke_role: the updated role map is not written back.
revoke_role_no_store(s, caller, user, role, auth) ==
    IF ~auth THEN Panic(s, "AuthError")
    ELSE IF require_admin(s, caller) # "Ok" THEN Panic(s, require_admin(s, caller))
    ELSE IF caller = user /\ role = "Admin" THEN Panic(s, "CannotRevokeSelfAdmin")
    ELSE
        LET roles == unwrap_or(GetUserRolesEntry(s, user), MapNew) IN
        IF ~unwrap_or(MapGet(roles, role), FALSE) THEN Panic(s, "RoleNotAssigned")
        ELSE
            LET count == unwrap_or(s.total, 0)
                s2 == IF count > 0 THEN [s EXCEPT !.total = Some(count - 1)] ELSE s
            IN  Return(Publish(s2, <<"role_revoked", user, role>>))

\* Variant of revoke_role: the role map written back is a new map holding only
\* the revoked role.
revoke_role_fresh_map(s, caller, user, role, auth) ==
    IF ~auth THEN Panic(s, "AuthError")
    ELSE IF require_admin(s, caller) # "Ok" THEN Panic(s, require_admin(s, caller))
    ELSE IF caller = user /\ role = "Admin" THEN Panic(s, "CannotRevokeSelfAdmin")
    ELSE
        LET roles == unwrap_or(GetUserRolesEntry(s, user), MapNew) IN
        IF ~unwrap_or(MapGet(roles, role), FALSE) THEN Panic(s, "RoleNotAssigned")
        ELSE
            LET s1 == SetUserRolesEntry(s, user, MapSet(MapNew, role, FALSE))
                count == unwrap_or(s1.total, 0)
                s2 == IF count > 0 THEN [s1 EXCEPT !.total = Some(count - 1)] ELSE s1
            IN  Return(Publish(s2, <<"role_revoked", user, role>>))

\* fn revoke_role(env, caller, user, role)
revoke_role(s, caller, user, role, auth) ==
    IF ~auth THEN Panic(s, "AuthError")
    ELSE IF require_admin(s, caller) # "Ok" THEN Panic(s, require_admin(s, caller))
    ELSE IF caller = user /\ role = "Admin" THEN Panic(s, "CannotRevokeSelfAdmin")
    ELSE
        LET roles == unwrap_or(GetUserRolesEntry(s, user), MapNew) IN
        IF ~unwrap_or(MapGet(roles, role), FALSE) THEN Panic(s, "RoleNotAssigned")
        ELSE
            LET s1 == SetUserRolesEntry(s, user, MapSet(roles, role, FALSE))
                count == unwrap_or(s1.total, 0)
                s2 == IF count > 0 THEN [s1 EXCEPT !.total = Some(count - 1)] ELSE s1
            IN  Return(Publish(s2, <<"role_revoked", user, role>>))

\* Variant of transfer_admin: the new admin's flag is set before the current
\* admin's flag is cleared.
transfer_admin_swapped(s, current_admin, new_admin, auth) ==
    IF ~auth THEN Panic(s, "AuthError")
    ELSE IF require_admin(s, current_admin) # "Ok"
    THEN Panic(s, require_admin(s, current_admin))
    ELSE
        LET new_roles == unwrap_or(GetUserRolesEntry(s, new_admin), MapNew)
            s1 == SetUserRolesEntry(s, new_admin, MapSet(new_roles, "Admin", TRUE))
            current_roles == unwrap_or(GetUserRolesEntry(s1, current_admin), MapNew)
            s2 == SetUserRolesEntry(s1, current_admin, MapSet(current_roles, "Admin", FALSE))
            s3 == [s2 EXCEPT !.admin = Some(new_admin)]
        IN  Return(Publish(s3, <<"admin_transferred", current_admin, new_admin>>))

\* Variant of transfer_admin: counts the new admin's flag as a new assignment.
transfer_admin_counting(s, current_admin, new_admin, auth) ==
    IF ~auth THEN Panic(s, "AuthError")
    ELSE IF require_admin(s, current_admin) # "Ok"
    THEN Panic(s, require_admin(s, current_admin))
    ELSE
        LET current_roles == unwrap_or(GetUserRolesEntry(s, current_admin), MapNew)
            s1 == SetUserRolesEntry(s, current_admin, MapSet(current_roles, "Admin", FALSE))
            new_roles == unwrap_or(GetUserRolesEntry(s1, new_admin), MapNew)
            s2 == SetUserRolesEntry(s1, new_admin, MapSet(new_roles, "Admin", TRUE))
            s3 == [s2 EXCEPT !.admin = Some(new_admin),
                             !.total = Some(unwrap_or(s2.total, 0) + 1)]
        IN  Return(Publish(s3, <<"admin_transferred", current_admin, new_admin>>))

\* Variant of transfer_admin: no admin check.
transfer_admin_no_guard(s, current_admin, new_admin, auth) ==
    IF ~auth THEN Panic(s, "AuthError")
    ELSE
        LET current_roles == unwrap_or(GetUserRolesEntry(s, current_admin), MapNew)
            s1 == SetUserRolesEntry(s, current_admin, MapSet(current_roles, "Admin", FALSE))
            new_roles == unwrap_or(GetUserRolesEntry(s1, new_admin), MapNew)
            s2 == SetUserRolesEntry(s1, new_admin, MapSet(new_roles, "Admin", TRUE))
            s3 == [s2 EXCEPT !.admin = Some(new_admin)]
        IN  Return(Publish(s3, <<"admin_transferred", current_admin, new_admin>>))

\* Variant of transfer_admin: a transfer to the current admin itself writes
\* nothing and publishes nothing.
transfer_admin_self_noop(s, current_admin, new_admin, auth) ==
    IF ~auth THEN Panic(s, "AuthError")
    ELSE IF require_admin(s, current_admin) # "Ok"
    THEN Panic(s, require_admin(s, current_admin))
    ELSE IF current_admin = new_admin THEN Return(s)
    ELSE
        LET current_roles == unwrap_or(GetUserRolesEntry(s, current_admin), MapNew)
            s1 == SetUserRolesEntry(s, current_admin, MapSet(current_roles, "Admin", FALSE))
            new_roles == unwrap_or(GetUserRolesEntry(s1, new_admin), MapNew)
            s2 == SetUserRolesEntry(s1, new_admin, MapSet(new_roles, "Admin", TRUE))
            s3 == [s2 EXCEPT !.admin = Some(new_admin)]
        IN  Return(Publish(s3, <<"admin_transferred", current_admin, new_admin>>))

\* Variant of transfer_admin: counts the cleared flag of the current admin as
\* a revoked assignment.
transfer_admin_decrementing(s, current_admin, new_admin, auth) ==
    IF ~auth THEN Panic(s, "AuthError")
    ELSE IF require_admin(s, current_admin) # "Ok"
    THEN Panic(s, require_admin(s, current_admin))
    ELSE
        LET current_roles == unwrap_or(GetUserRolesEntry(s, current_admin), MapNew)
            s1 == SetUserRolesEntry(s, current_admin, MapSet(current_roles, "Admin", FALSE))
            new_roles == unwrap_or(GetUserRolesEntry(s1, new_admin), MapNew)
            s2 == SetUserRolesEntry(s1, new_admin, MapSet(new_roles, "Admin", TRUE))
            count == unwrap_or(s2.total, 0)
            s3 == [s2 EXCEPT !.admin = Some(new_admin),
                             !.total = IF count > 0 THEN Some(count - 1) ELSE s2.total]
        IN  Return(Publish(s3, <<"admin_transferred", current_admin, new_admin>>))

\* fn transfer_admin(env, current_admin, new_admin)
transfer_admin(s, current_admin, new_admin, auth) ==
    IF ~auth THEN Panic(s, "AuthError")
    ELSE IF require_admin(s, current_admin) # "Ok"
    THEN Panic(s, require_admin(s, current_admin))
    ELSE
        LET current_roles == unwrap_or(GetUserRolesEntry(s, current_admin), MapNew)
            s1 == SetUserRolesEntry(s, current_admin, MapSet(current_roles, "Admin", FALSE))
            new_roles == unwrap_or(GetUserRolesEntry(s1, new_admin), MapNew)
            s2 == SetUserRolesEntry(s1, new_admin, MapSet(new_roles, "Admin", TRUE))
            s3 == [s2 EXCEPT !.admin = Some(new_admin)]
        IN  Return(Publish(s3, <<"admin_transferred", current_admin, new_admin>>))

\* fn has_role(env, user, role) -> bool
has_role(user, role) ==
    unwrap_or(MapGet(unwrap_or(GetUserRolesEntry(Storage, user), MapNew), role), FALSE)

\* fn get_user_roles(env, user) -> Map<Role, bool>
get_user_roles(user) == unwrap_or(GetUserRolesEntry(Storage, user), MapNew)

\* fn get_total_role_assignments(env) -> u64
get_total_role_assignments == unwrap_or(totalRoleAssignments, 0)

\* fn get_admin(env) -> Address
get_admin(s) ==
    IF Len(s.admin) = 0 THEN Panic(s, "NotInitialized")
    ELSE ReturnValue(s, s.admin[1])

\* fn require_admin_or_role(env, caller, role)
require_admin_or_role(s, caller, role) ==
    LET roles == unwrap_or(GetUserRolesEntry(s, caller), MapNew)
        is_admin == unwrap_or(MapGet(roles, "Admin"), FALSE)
        has == unwrap_or(MapGet(roles, role), FALSE)
    IN  IF ~is_admin /\ ~has THEN Panic(s, "Unauthorized") ELSE Return(s)

----------------------------------------------------------------------------
\* The invocations

Call(op, caller, user, role, auth, result) ==
    [op |-> op, caller |-> caller, user |-> user, role |-> role,
     auth |-> auth, result |-> result]

\* The host applies the outcome of an invocation: a successful one commits its
\* writes and events, a failed one commits nothing.
Invoke(call, r) ==
    /\ r.result = "Ok" => Len(r.s.events) <= MaxEvents
    /\ last' = [call EXCEPT !.result = r.result]
    /\ IF r.result = "Ok"
       THEN /\ admin' = r.s.admin
            /\ userRoles' = r.s.userRoles
            /\ totalRoleAssignments' = r.s.total
            /\ events' = r.s.events
       ELSE UNCHANGED <<admin, userRoles, totalRoleAssignments, events>>

Init ==
    /\ admin = None
    /\ userRoles = [a \in {} |-> MapNew]
    /\ totalRoleAssignments = None
    /\ events = <<>>
    /\ last = Call("none", "a1", "a1", "Admin", FALSE, "none")

Initialize ==
    \E adm \in Address, auth \in BOOLEAN :
        Invoke(Call("initialize", adm, adm, "Admin", auth, "?"),
               initialize(Storage, adm, auth))

GrantRole ==
    \E caller \in Address, user \in Address, role \in Role, auth \in BOOLEAN :
        Invoke(Call("grant_role", caller, user, role, auth, "?"),
               grant_role(Storage, caller, user, role, auth))

RevokeRole ==
    \E caller \in Address, user \in Address, role \in Role, auth \in BOOLEAN :
        Invoke(Call("revoke_role", caller, user, role, auth, "?"),
               revoke_role(Storage, caller, user, role, auth))

TransferAdmin ==
    \E current_admin \in Address, new_admin \in Address, auth \in BOOLEAN :
        Invoke(Call("transfer_admin", current_admin, new_admin, "Admin", auth, "?"),
               transfer_admin(Storage, current_admin, new_admin, auth))

\* The read-only functions take no authorization; the fields of the invocation
\* record they have no argument for hold a fixed filler.
HasRole ==
    \E user \in Address, role \in Role :
        Invoke(Call("has_role", user, user, role, FALSE, "?"),
               ReturnValue(Storage, has_role(user, role)))

GetUserRoles ==
    \E user \in Address :
        Invoke(Call("get_user_roles", user, user, "Admin", FALSE, "?"),
               ReturnValue(Storage, get_user_roles(user)))

GetAdmin ==
    Invoke(Call("get_admin", "a1", "a1", "Admin", FALSE, "?"), get_admin(Storage))

GetTotalRoleAssignments ==
    Invoke(Call("get_total_role_assignments", "a1", "a1", "Admin", FALSE, "?"),
           ReturnValue(Storage, get_total_role_assignments))

RequireAdminOrRole ==
    \E caller \in Address, role \in Role :
        Invoke(Call("require_admin_or_role", caller, caller, role, FALSE, "?"),
               require_admin_or_role(Storage, caller, role))

Next ==
    \/ Initialize
    \/ GrantRole
    \/ RevokeRole
    \/ TransferAdmin
    \/ HasRole
    \/ GetUserRoles
    \/ GetAdmin
    \/ GetTotalRoleAssignments
    \/ RequireAdminOrRole

Spec == Init /\ [][Next]_vars

----------------------------------------------------------------------------
\* Vocabulary of the properties

\* The number of (Address, Role) pairs whose flag reads true.
TrueFlags == Cardinality({pr \in Address \X Role : has_role(pr[1], pr[2])})

Initialized == Len(admin) # 0

\* ev was published by some successful invocation so far.
Published(ev) == \E i \in 1..Len(events) : events[i] = ev

StorageUnchanged == UNCHANGED <<admin, userRoles, totalRoleAssignments, events>>

\* The step is an invocation of op, described by last'.
\* (Every step that changes a variable sets last to the invocation it makes.)
Succeeded(c, op) == c.op = op /\ c.result = "Ok"

----------------------------------------------------------------------------
\* C1: in every reachable state totalAssignments equals the number of
\* (Principal, Role) pairs whose flag is true.
C1_CounterEqualsTrueFlags == get_total_role_assignments = TrueFlags

\* C2: once initialized, the address stored as admin holds Admin = true in its
\* own role map, in every state between invocations.
C2_AdminHoldsAdminFlag == Initialized => has_role(admin[1], "Admin")

\* C2 witness: the admin is an address that received the admin by a transfer
\* from another address.
C2_Witness ==
    /\ Succeeded(last, "transfer_admin")
    /\ last.caller # last.user
    /\ admin = Some(last.user)

\* C3: in an initialized registry a grant_role, revoke_role or transfer_admin
\* invocation whose authenticated caller is not the stored admin fails with
\* Unauthorized and leaves admin, role maps, counter and events unchanged.
C3_NonAdminUnauthorized ==
    [][ ( /\ last'.op \in {"grant_role", "revoke_role", "transfer_admin"}
          /\ last'.auth
          /\ Initialized
          /\ last'.caller # admin[1] )
        => (last'.result = "Unauthorized" /\ StorageUnchanged) ]_vars

\* C3 witness: the rejected caller is a former admin that holds the Admin flag.
C3_Witness ==
    /\ last.result = "Unauthorized"
    /\ has_role(last.caller, "Admin")
    /\ \E a \in Address : Published(<<"admin_transferred", last.caller, a>>)

\* C4: grant_role by the admin for a pair whose flag is already true fails
\* with RoleAlreadyAssigned and changes nothing.
C4_GrantTwiceRejected ==
    [][ ( /\ last'.op = "grant_role"
          /\ last'.auth
          /\ Initialized
          /\ last'.caller = admin[1]
          /\ has_role(last'.user, last'.role) )
        => (last'.result = "RoleAlreadyAssigned" /\ StorageUnchanged) ]_vars

\* C4 witness: a grant was rejected for a pair granted earlier.
C4_Witness ==
    /\ last.op = "grant_role"
    /\ last.result = "RoleAlreadyAssigned"
    /\ Published(<<"role_granted", last.user, last.role>>)

\* C5: revoke_role by the admin for a pair whose flag is false or absent,
\* other than the admin's own Admin role, fails with RoleNotAssigned and
\* changes nothing (the counter is not decremented).
C5_RevokeUnassignedRejected ==
    [][ ( /\ last'.op = "revoke_role"
          /\ last'.auth
          /\ Initialized
          /\ last'.caller = admin[1]
          /\ ~(last'.user = last'.caller /\ last'.role = "Admin")
          /\ ~has_role(last'.user, last'.role) )
        => (last'.result = "RoleNotAssigned" /\ StorageUnchanged) ]_vars

\* C5 witness: a revoke was rejected for a pair whose entry is an explicit
\* false (it was granted and revoked before) while the counter is positive.
C5_Witness ==
    /\ last.op = "revoke_role"
    /\ last.result = "RoleNotAssigned"
    /\ Published(<<"role_revoked", last.user, last.role>>)
    /\ get_total_role_assignments > 0

\* C6: the admin revoking its own Admin role fails with CannotRevokeSelfAdmin
\* and changes nothing; the admin revoking the Admin role of another address
\* that holds it succeeds, clears that flag and lowers the counter by 1.
C6_SelfAdminRevoke ==
    [][ ( /\ last'.op = "revoke_role"
          /\ last'.auth
          /\ Initialized
          /\ last'.caller = admin[1]
          /\ last'.role = "Admin" )
        => /\ last'.user = last'.caller
              => (last'.result = "CannotRevokeSelfAdmin" /\ StorageUnchanged)
           /\ \A user \in Address \ {last'.caller} :
                 (last'.user = user /\ has_role(user, "Admin"))
                 => /\ last'.result = "Ok"
                    /\ ~has_role(user, "Admin")'
                    /\ get_total_role_assignments' = get_total_role_assignments - 1
      ]_vars

\* C6 witness: the admin was refused its own Admin role after it had revoked
\* the Admin role of another address.
C6_Witness ==
    /\ last.op = "revoke_role"
    /\ last.result = "CannotRevokeSelfAdmin"
    /\ \E a \in Address \ {last.caller} : Published(<<"role_revoked", a, "Admin">>)

\* C7 as stated: for every address p and role r, has_role(p, r) is false in
\* every state reached before a successful grant_role for (p, r), true right
\* after a successful grant_role for (p, r), and false right after a successful
\* revoke_role for (p, r).
C7_Original ==
    /\ \A p \in Address, r \in Role :
          ~Published(<<"role_granted", p, r>>) => ~has_role(p, r)
    /\ Succeeded(last, "grant_role") => has_role(last.user, last.role)
    /\ Succeeded(last, "revoke_role") => ~has_role(last.user, last.role)

\* p was named admin by a successful initialize or transfer_admin.
MadeAdmin(p) ==
    \/ Published(<<"initialized", p>>)
    \/ \E a \in Address : Published(<<"admin_transferred", a, p>>)

\* C7 as amended: has_role(p, r) is false in every state reached before a
\* successful grant_role for (p, r), except that has_role(p, Admin) may be true
\* once a successful initialize or transfer_admin has named p the admin; it is
\* true right after a successful grant_role for (p, r) and false right after a
\* successful revoke_role for (p, r).
C7_HasRoleFollowsGrantRevoke ==
    /\ \A p \in Address, r \in Role :
          (~Published(<<"role_granted", p, r>>) /\ ~(r = "Admin" /\ MadeAdmin(p)))
          => ~has_role(p, r)
    /\ Succeeded(last, "grant_role") => has_role(last.user, last.role)
    /\ Succeeded(last, "revoke_role") => ~has_role(last.user, last.role)

\* C7 witness: a pair was granted and has just been revoked.
C7_Witness ==
    /\ Succeeded(last, "revoke_role")
    /\ Published(<<"role_granted", last.user, last.role>>)
    /\ ~has_role(last.user, last.role)

\* C8: a successful transfer_admin(A, B) with B # A makes B the stored admin,
\* sets B's Admin flag, clears A's Admin flag, leaves every non-Admin flag of
\* every address as it was and leaves the counter as it was.
C8_TransferAdmin ==
    [][ \A A \in Address : \A B \in Address \ {A} :
          ( /\ Succeeded(last', "transfer_admin")
            /\ last'.caller = A
            /\ last'.user = B )
          => /\ admin' = Some(B)
             /\ has_role(B, "Admin")'
             /\ ~has_role(A, "Admin")'
             /\ \A p \in Address, r \in Role \ {"Admin"} :
                   has_role(p, r)' = has_role(p, r)
             /\ get_total_role_assignments' = get_total_role_assignments
      ]_vars

\* C8 witness: the admin was transferred to another address that already held
\* the Admin flag by an earlier grant.
C8_Witness ==
    /\ Succeeded(last, "transfer_admin")
    /\ last.caller # last.user
    /\ Published(<<"role_granted", last.user, "Admin">>)
    /\ admin = Some(last.user)

\* C9: initialize(A) on an uninitialized registry, authorized by A, succeeds
\* and yields admin = A, has_role(A, Admin), every other flag false and a
\* counter of 1.
C9_Initialize ==
    [][ \A A \in Address :
          ( /\ last'.op = "initialize"
            /\ last'.user = A
            /\ last'.auth
            /\ ~Initialized )
          => /\ last'.result = "Ok"
             /\ admin' = Some(A)
             /\ \A p \in Address, r \in Role :
                   has_role(p, r)' = (p = A /\ r = "Admin")
             /\ get_total_role_assignments' = 1
      ]_vars

\* C9 witness: the registry has just been initialized.
C9_Witness ==
    /\ Succeeded(last, "initialize")
    /\ admin = Some(last.user)
    /\ events = << <<"initialized", last.user>> >>

\* C10: once the registry is initialized, every initialize invocation fails
\* with the already-initialized condition and leaves the admin, the role maps
\* and the counter as they were.
C10_InitializeOnce ==
    [][ (last'.op = "initialize" /\ Initialized)
        => (last'.result = "AlreadyInitialized" /\ StorageUnchanged) ]_vars

\* C10 witness: initialize was refused after a transfer, for an address other
\* than the admin, with a counter other than 1.
C10_Witness ==
    /\ last.op = "initialize"
    /\ last.result = "AlreadyInitialized"
    /\ \E a \in Address, b \in Address : Published(<<"admin_transferred", a, b>>)
    /\ admin # Some(last.user)
    /\ get_total_role_assignments # 1

----------------------------------------------------------------------------
\* No successful transfer_admin has happened so far.
NoTransfer == \A i \in 1..Len(events) : events[i][1] # "admin_transferred"

\* C11: as long as no transfer_admin has succeeded, the counter equals the
\* number of true flags; a successful grant_role raises it by exactly 1, a
\* successful revoke_role lowers it by exactly 1, a failed call leaves it as
\* it was.
\* (The counter and the flags are equal, both 0, in the initial state; the last
\* conjunct gives the equality after every step that writes a role map or the
\* counter, hence in every state.)
C11_CounterUnderGrantRevoke ==
    [][ NoTransfer'
        => /\ last'.result # "Ok"
              => get_total_role_assignments' = get_total_role_assignments
           /\ Succeeded(last', "grant_role")
              => get_total_role_assignments' = get_total_role_assignments + 1
           /\ Succeeded(last', "revoke_role")
              => get_total_role_assignments' = get_total_role_assignments - 1
           /\ ~(UNCHANGED <<userRoles, totalRoleAssignments>>)
              => get_total_role_assignments' = TrueFlags'
      ]_vars

\* C11 witness: initialize, a grant and its revoke, and no transfer.
C11_Witness ==
    /\ NoTransfer
    /\ Succeeded(last, "revoke_role")
    /\ Published(<<"role_granted", last.user, last.role>>)
    /\ get_total_role_assignments = 1
    /\ TrueFlags = 1

\* C12: require_admin_or_role(caller, role) succeeds exactly when caller is the
\* stored admin or caller's role map has role = true, and fails with
\* Unauthorized otherwise (also for a non-admin caller that holds the Admin
\* flag but not role).
C12_RequireAdminOrRole ==
    last.op = "require_admin_or_role"
    => /\ last.result \in {"Ok", "Unauthorized"}
       /\ last.result = "Ok"
          <=> (admin = Some(last.caller) \/ has_role(last.caller, last.role))

\* C13: the map get_user_roles(target) returns holds an explicit false entry
\* for every role not assigned to target when target has a recorded role map,
\* and reads false for every role when target has none.
C13_GetUserRolesExplicitFalse ==
    last.op = "get_user_roles"
    => \A role \in Role :
          ~has_role(last.user, role)
          => IF last.user \in DOMAIN userRoles
             THEN MapGet(get_user_roles(last.user), role) = Some(FALSE)
             ELSE ~unwrap_or(MapGet(get_user_roles(last.user), role), FALSE)

\* C14: an address whose flags are all false after a grant and its revoke
\* reads like an address never seen: get_user_roles gives what it gives for
\* such an address (the new, empty map), has_role is false for every role, and
\* the counter is back at its value before the grant (1 when the grant and the
\* revoke directly follow initialize).
C14_RevokedReadsAsNeverSeen ==
    ( /\ Succeeded(last, "revoke_role")
      /\ Published(<<"role_granted", last.user, last.role>>)
      /\ \A role \in Role : ~has_role(last.user, role) )
    => /\ get_user_roles(last.user) = MapNew
       /\ Len(events) = 3 => get_total_role_assignments = 1

\* C15: initialize, grant_role, revoke_role and transfer_admin authenticate
\* the caller before they consult the storage: an invocation without the
\* caller's authorization fails with the authentication error in every state
\* and changes nothing.
C15_AuthenticationFirst ==
    [][ ( /\ last'.op \in {"initialize", "grant_role", "revoke_role", "transfer_admin"}
          /\ ~last'.auth )
        => (last'.result = "AuthError" /\ StorageUnchanged) ]_vars

\* C16: before any successful initialize, grant_role, revoke_role and
\* transfer_admin with an authorized caller, and get_admin, fail with the
\* not-initialized condition and change nothing; get_total_role_assignments
\* is 0 and has_role is false for every address and role.
C16_BeforeInitialize ==
    [][ ~Initialized
        => /\ get_total_role_assignments = 0
           /\ \A p \in Address, r \in Role : ~has_role(p, r)
           /\ ( \/ /\ last'.op \in {"grant_role", "revoke_role", "transfer_admin"}
                   /\ last'.auth
                \/ last'.op = "get_admin" )
              => (last'.result = "NotInitialized" /\ StorageUnchanged)
           /\ last'.op \in {"get_total_role_assignments", "has_role"}
              => (last'.result = "Ok" /\ StorageUnchanged)
      ]_vars

\* C16 witness: an authorized grant_role was refused on the empty registry.
C16_Witness ==
    /\ ~Initialized
    /\ last.op = "grant_role"
    /\ last.auth
    /\ last.result = "NotInitialized"
    /\ events = <<>>

\* C17: the stored admin goes from absent to present only in a successful
\* initialize and never back; afterwards it changes only in a successful
\* transfer_admin whose authorized caller is the admin stored before the step.
C17_AdminChanges ==
    [][ admin' # admin
        => IF ~Initialized
           THEN /\ Succeeded(last', "initialize")
                /\ last'.auth
                /\ admin' = Some(last'.user)
           ELSE /\ Len(admin') # 0
                /\ Succeeded(last', "transfer_admin")
                /\ last'.auth
                /\ Some(last'.caller) = admin
                /\ admin' = Some(last'.user)
      ]_vars

\* C17 witness: the admin has been transferred away and back.
C17_Witness ==
    /\ Succeeded(last, "transfer_admin")
    /\ Published(<<"admin_transferred", last.user, last.caller>>)
    /\ last.user # last.caller
    /\ admin = Some(last.user)

\* (A flag can only differ between two states whose role maps differ.)
\* C18 as stated: after initialization a flag goes from false to true only in
\* a successful grant_role for that pair and from true to false only in a
\* successful revoke_role for that pair.
C18_Original ==
    [][ (Initialized /\ userRoles' # userRoles)
        => \A p \in Address, r \in Role :
              /\ (~has_role(p, r) /\ has_role(p, r)')
                 => (Succeeded(last', "grant_role") /\ last'.user = p /\ last'.role = r)
              /\ (has_role(p, r) /\ ~has_role(p, r)')
                 => (Succeeded(last', "revoke_role") /\ last'.user = p /\ last'.role = r)
      ]_vars

\* C18 as amended: after initialization a flag goes from false to true only in
\* a successful grant_role for that pair or, for the Admin flag, in a
\* successful transfer_admin to that address; it goes from true to false only
\* in a successful revoke_role for that pair or, for the Admin flag, in a
\* successful transfer_admin by that address to another one.
C18_FlagFlips ==
    [][ (Initialized /\ userRoles' # userRoles)
        => \A p \in Address, r \in Role :
              /\ (~has_role(p, r) /\ has_role(p, r)')
                 => \/ Succeeded(last', "grant_role") /\ last'.user = p /\ last'.role = r
                    \/ /\ Succeeded(last', "transfer_admin")
                       /\ last'.user = p
                       /\ r = "Admin"
              /\ (has_role(p, r) /\ ~has_role(p, r)')
                 => \/ Succeeded(last', "revoke_role") /\ last'.user = p /\ last'.role = r
                    \/ /\ Succeeded(last', "transfer_admin")
                       /\ last'.caller = p
                       /\ last'.user # p
                       /\ r = "Admin"
      ]_vars

\* C18 witness: a revoke cleared one flag of an address that holds another.
C18_Witness ==
    /\ Succeeded(last, "revoke_role")
    /\ ~has_role(last.user, last.role)
    /\ \E r \in Role : has_role(last.user, r)

\* The event a successful invocation publishes.
EventOf(c) ==
    CASE c.op = "initialize"     -> <<"initialized", c.user>>
      [] c.op = "grant_role"     -> <<"role_granted", c.user, c.role>>
      [] c.op = "revoke_role"    -> <<"role_revoked", c.user, c.role>>
      [] c.op = "transfer_admin" -> <<"admin_transferred", c.caller, c.user>>

\* C19: the event log only grows at its end: a successful initialize,
\* grant_role, revoke_role or transfer_admin appends exactly its one event,
\* every failed invocation and every read leaves the log as it was.
C19_EventLog ==
    [][ IF /\ last'.result = "Ok"
           /\ last'.op \in {"initialize", "grant_role", "revoke_role", "transfer_admin"}
        THEN events' = Append(events, EventOf(last'))
        ELSE events' = events
      ]_vars

\* C19 witness: the log holds an initialized, a role_granted and a
\* role_revoked event, and a read has taken place since.
C19_Witness ==
    /\ last.op = "has_role"
    /\ Len(events) = 3
    /\ events[1][1] = "initialized"
    /\ events[2][1] = "role_granted"
    /\ events[3][1] = "role_revoked"

\* C20: transfer_admin(A, A) by the admin A succeeds, publishes
\* admin_transferred(A, A) and leaves the admin, every role map and the
\* counter as they were.
C20_TransferToSelf ==
    [][ \A A \in Address :
          ( /\ last'.op = "transfer_admin"
            /\ last'.auth
            /\ last'.caller = A
            /\ last'.user = A
            /\ admin = Some(A) )
          => /\ last'.result = "Ok"
             /\ events' = Append(events, <<"admin_transferred", A, A>>)
             /\ UNCHANGED <<admin, userRoles, totalRoleAssignments>>
             /\ has_role(A, "Admin")'
      ]_vars

\* C20 witness: the admin has just transferred the admin to itself.
C20_Witness ==
    /\ Succeeded(last, "transfer_admin")
    /\ last.caller = last.user
    /\ admin = Some(last.user)
    /\ events[Len(events)] = <<"admin_transferred", last.user, last.user>>

\* C21: in every reachable state the counter is at least the number of true
\* flags, and wherever a revoke_role succeeds the counter it reads is at least
\* 1, so the branch that skips the decrement at 0 is not taken.
C21_CounterAtLeastTrueFlags ==
    /\ get_total_role_assignments >= TrueFlags
    /\ \A caller \in Address, user \in Address, role \in Role :
          revoke_role(Storage, caller, user, role, TRUE).result = "Ok"
          => unwrap_or(totalRoleAssignments, 0) > 0

\* C21 witness: the Admin role of another address has just been revoked, and
\* the counter and the number of true flags are both 1.
C21_Witness ==
    /\ Succeeded(last, "revoke_role")
    /\ last.role = "Admin"
    /\ get_total_role_assignments = 1
    /\ TrueFlags = 1

====
